---- MODULE Spec2Model ----
(***************************************************************************)
(* Client-side message-channel engine of ethereum-browser-sdk              *)
(* (library/source/client.ts): the abstract Channel (bus listener, inbound *)
(* filter, send), the HandshakeChannel (provider directory) and the        *)
(* HotOstrichChannel (request/response correlation, notifications).        *)
(*                                                                         *)
(* One window carries three channel instances: a HandshakeChannel "hs" and *)
(* two HotOstrichChannels "r1" and "r2" whose provider ids are constructor *)
(* arguments.  Events reach the listeners either from the environment      *)
(* (providers, unrelated scripts) or from the window's own message queue,  *)
(* which holds what the channels posted to their own window.               *)
(***************************************************************************)
EXTENDS Integers, Sequences, FiniteSets, TLC

VARIABLES
    listeners,        \* window's 'message' listeners, in registration order
    providerId,       \* HotOstrichChannel.providerId of r1 and r2
    hasParent,        \* window.parent exists and differs from window
    constructed,      \* the channels whose constructor has been called
    bus,              \* envelopes posted to this window, not yet dispatched
    posted,           \* every postMessage call made by send, in order
    knownProviders,   \* HandshakeChannel.knownProviders: the object's own
                      \* properties and its prototype
    pendingRequests,  \* HotOstrichChannel.pendingRequests of r1 and r2
    futures,          \* the Future objects, by correlation id
    nextId,           \* source of newCorrelationId()
    running,          \* the call under way: a promisify that has sent and
                      \* not yet pushed, or a HandshakeChannel constructor
                      \* that has returned from super() and not yet announced
    delivered,        \* number of events the environment has posted
    dispatch,         \* the message event being dispatched: the listeners
                      \* still to be invoked, and whether script of the
                      \* application runs before the next of them
    eff,              \* what the listener invoked in the last step did
    last              \* the last step taken: operation, instance, event

vars == << listeners, providerId, hasParent, constructed, bus, posted, knownProviders,
           pendingRequests, futures, nextId, running, delivered, dispatch,
           eff, last >>

-----------------------------------------------------------------------------
(* Bounds *)

\* typed calls issued in total (over r1 and r2)
MaxCalls == 2
\* events the environment posts to the window
MaxDeliver == 2
\* reRequestProviders() calls
MaxReRequest == 1

-----------------------------------------------------------------------------
(* Protocol identities and vocabularies *)

HandshakeInstances == {"hs"}
RpcInstances == {"r1", "r2"}
Instances == HandshakeInstances \cup RpcInstances

ProviderIds == {"p1", "p2"}

\* A channel name is a fixed prefix followed by a provider id (empty for the
\* handshake names); the pair stands for the concatenated string.
ChannelName(prefix, id) == [prefix |-> prefix, id |-> id]

HANDSHAKE_PROVIDER_CHANNEL_NAME == ChannelName("HandshakeProvider", "")
HANDSHAKE_CLIENT_CHANNEL_NAME == ChannelName("HandshakeClient", "")
HANDSHAKE_KIND == "handshake"
HOTOSTRICH_PROVIDER_CHANNEL_PREFIX == "HotOstrichProvider-"
HOTOSTRICH_CLIENT_CHANNEL_PREFIX == "HotOstrichClient-"
HOTOSTRICH_KIND == "hot_ostrich"

\* a channel no instance listens on, and the value of an absent field
OtherChannel == ChannelName("unrelated", "")
Undefined == "undefined"

\* The seven typed methods of HotOstrichChannel, by the kind they pass on.
RequestKinds ==
    { "get_capabilities", "submit_native_token_transfer", "submit_contract_call",
      "submit_contract_deployment", "sign_message", "local_contract_call",
      "get_signer_address" }

\* Payloads: one record shape for every message; unused fields are "".
\* shape is what a property read and the structured clone see: an object, an
\* absent or null payload, an object holding a function or a symbol
Payload(pid, v) == [shape |-> "object", provider_id |-> pid, v |-> v]
EmptyPayload == Payload("", "")
NoPayload(shape) == [shape |-> shape, provider_id |-> "", v |-> ""]
UncloneablePayload == NoPayload("uncloneable")
\* reading a property of the payload throws a TypeError
PropertyReadThrows(payload) == payload.shape \in {"undefined", "null"}
Values == {"v1", "v2"}
\* a value JSON.stringify cannot serialise (a BigInt; it survives the
\* structured clone of postMessage)
BigIntValue == "10n"
\* JSON.stringify(payload) throws a TypeError
JSONStringifyThrows(payload) == payload.v = BigIntValue

\* A JavaScript object used as a map (knownProviders = {} at line 72): its
\* own properties, and its prototype, which is Object.prototype until an
\* assignment to the key __proto__ runs the setter it inherits and replaces
\* it.  (The properties Object.prototype itself holds are left out.)
ObjectPrototype == NoPayload("Object.prototype")
EmptyObject == [own |-> << >>, proto |-> ObjectPrototype]
ProtoKey == "__proto__"

\* object[key] = value, value an object
SetProperty(object, key, value) ==
    IF key = ProtoKey THEN [object EXCEPT !.proto = value]
    ELSE [object EXCEPT !.own = (key :> value) @@ @]

\* what a property read yields: an object, a string, or undefined
ObjectValue(object) == [is |-> "object", object |-> object, string |-> ""]
StringValue(string) == [is |-> "string", object |-> EmptyPayload, string |-> string]
UndefinedValue == [is |-> "undefined", object |-> EmptyPayload, string |-> ""]

\* the fields of a payload, which an object that has it for prototype
\* inherits
PayloadFields == {"provider_id", "v"}

\* the payload has the field: a field it lacks is "" in the record (or
\* Undefined, for a provider_id it lacks)
HasField(payload, field) ==
    /\ payload.shape = "object"
    /\ field \in PayloadFields
    /\ payload[field] \notin {"", Undefined}

\* object[key]: an own property, the prototype for the key __proto__, or a
\* property the prototype has; undefined otherwise
GetProperty(object, key) ==
    IF key \in DOMAIN object.own THEN ObjectValue(object.own[key])
    ELSE IF key = ProtoKey THEN ObjectValue(object.proto)
    ELSE IF HasField(object.proto, key) THEN StringValue(object.proto[key])
    ELSE UndefinedValue

Message(type, kind, cid, success, payload) ==
    [type |-> type, kind |-> kind, correlation_id |-> cid,
     success |-> success, payload |-> payload]
NoMessage == Message(Undefined, "", 0, FALSE, EmptyPayload)

\* value of event.data.ethereum: shape is what typeof and property access see
Envelope(channel, kind, hasMessage, message) ==
    [shape |-> "object", channel |-> channel, kind |-> kind,
     hasMessage |-> hasMessage, message |-> message]
NoEnvelope(shape) ==
    [shape |-> shape, channel |-> OtherChannel, kind |-> "",
     hasMessage |-> FALSE, message |-> NoMessage]

\* value of event.data
Data(shape, hasEthereum, ethereum) ==
    [shape |-> shape, hasEthereum |-> hasEthereum, ethereum |-> ethereum]
EnvelopeData(envelope) == Data("object", TRUE, envelope)
NoData == Data("undefined", FALSE, NoEnvelope("undefined"))

-----------------------------------------------------------------------------
(* Values thrown and caught *)

\* cls is what `instanceof Error`, `typeof` and JSON.stringify distinguish
\* in the catch block: an Error, a string, an object JSON.stringify
\* serialises, or a value it throws on (a circular object, a BigInt, an
\* object whose toJSON throws an Error or a string)
Thrown(cls, text) == [cls |-> cls, text |-> text]
NoThrow == Thrown("none", "")
TypeError(text) == Thrown("Error", text)

\* JSON.stringify(error) at line 29: what it throws, NoThrow when it returns
JSONStringifyError(error) ==
    IF error.cls = "circular"
    THEN TypeError("Converting circular structure to JSON")
    ELSE IF error.cls = "bigint"
    THEN TypeError("Do not know how to serialize a BigInt")
    ELSE IF error.cls = "toJSONThrowsError" THEN Thrown("Error", "toJSON failed")
    ELSE IF error.cls = "toJSONThrowsString" THEN Thrown("string", "toJSON failed")
    ELSE NoThrow

\* catch block of Channel.onMessage up to the call of onError: the value
\* handed to onError is the Error itself, new Error(string) or
\* new Error(JSON.stringify(value)); when JSON.stringify throws, onError is
\* not called and error is what leaves the catch block
NormalizeError(error) ==
    IF error.cls = "Error" THEN [called |-> TRUE, error |-> error]
    ELSE IF error.cls = "string"
    THEN [called |-> TRUE, error |-> Thrown("Error", error.text)]
    ELSE IF JSONStringifyError(error) = NoThrow
    THEN [called |-> TRUE, error |-> Thrown("Error", "JSON of the thrown value")]
    ELSE [called |-> FALSE, error |-> JSONStringifyError(error)]

\* utils.assertNever: raises an Error naming the unexpected value
assertNever(value) == Thrown("Error", "assertNever")

\* What the caller-supplied callbacks do when invoked: return, or throw a
\* value of the given class.
HandlerBehaviours ==
    [onError : {"ok", "Error"},
     callback : {"ok", "Error", "string", "object", "circular", "bigint",
                 "toJSONThrowsError", "toJSONThrowsString"}]
WellBehaved == [onError |-> "ok", callback |-> "ok"]
Hostile == [onError |-> "Error", callback |-> "object"]
\* the behaviours the request/response runs draw from
SomeBehaviours ==
    { WellBehaved, [onError |-> "Error", callback |-> "ok"],
      [onError |-> "ok", callback |-> "string"],
      [onError |-> "ok", callback |-> "bigint"] }
\* a response reaches no callback: only what onError does matters to it
OnErrorBehaviours == { WellBehaved, [onError |-> "Error", callback |-> "ok"] }

-----------------------------------------------------------------------------
(* Future (future.ts): a single-assignment result holder.  calls counts   *)
(* the invocations of resolve and reject made on it.                       *)

NewFuture == [state |-> "unsettled", value |-> EmptyPayload, calls |-> 0]

FutureResolve(f, value) ==
    IF f.state = "unsettled"
    THEN [state |-> "resolved", value |-> value, calls |-> f.calls + 1]
    ELSE [f EXCEPT !.calls = @ + 1]

FutureReject(f, reason) ==
    IF f.state = "unsettled"
    THEN [state |-> "rejected", value |-> reason, calls |-> f.calls + 1]
    ELSE [f EXCEPT !.calls = @ + 1]

-----------------------------------------------------------------------------
(* Per-instance protocol identity *)

\* provider channel name that leaves the provider id out
providerChannelName_NoId(i) ==
    IF i \in HandshakeInstances THEN HANDSHAKE_PROVIDER_CHANNEL_NAME
    ELSE ChannelName(HOTOSTRICH_PROVIDER_CHANNEL_PREFIX, "p1")

providerChannelName(i) ==
    IF i \in HandshakeInstances THEN HANDSHAKE_PROVIDER_CHANNEL_NAME
    ELSE ChannelName(HOTOSTRICH_PROVIDER_CHANNEL_PREFIX, providerId[i])

clientChannelName(i) ==
    IF i \in HandshakeInstances THEN HANDSHAKE_CLIENT_CHANNEL_NAME
    ELSE ChannelName(HOTOSTRICH_CLIENT_CHANNEL_PREFIX, providerId[i])

kind(i) == IF i \in HandshakeInstances THEN HANDSHAKE_KIND ELSE HOTOSTRICH_KIND

-----------------------------------------------------------------------------
(* Type guards.  Each yields "true", "false" or "throw" (a TypeError from  *)
(* the `in` operator or a property read on null or undefined).            *)

\* typeof x === 'object' holds for objects and for null
TypeofIsObject(shape) == shape \in {"object", "null"}

isEthereumMessageEvent(data) ==
    IF ~TypeofIsObject(data.shape) THEN "false"
    ELSE IF data.shape = "null" THEN "throw"
    ELSE IF ~data.hasEthereum THEN "false"
    ELSE IF TypeofIsObject(data.ethereum.shape) THEN "true"
    ELSE "false"

isProviderMessage(hasMessage, message) ==
    IF ~hasMessage THEN "throw"
    ELSE IF message.type = "notification" \/ message.type = "response" THEN "true"
    ELSE "false"

\* isT without the comparison of kinds
isT_AnyKind(i, messageEnvelope) == TRUE

isT(i, messageEnvelope) == messageEnvelope.kind = kind(i)

-----------------------------------------------------------------------------
(* Handlers.  A handler maps the instance state s (knownProviders,         *)
(* pendingRequests, futures, eff) to [s, thrown]: the state it leaves and  *)
(* the value it throws, NoThrow when it returns.                           *)

Quiet == [dispatched |-> FALSE, errors |-> << >>, callbacks |-> << >>,
          escaped |-> FALSE]
AllQuiet == [i \in Instances |-> Quiet]

Return(s) == [s |-> s, thrown |-> NoThrow]
Raise(s, error) == [s |-> s, thrown |-> error]

\* a caller-supplied callback is invoked with arg; it returns or throws
InvokeCallback(i, name, arg, h, s) ==
    LET s1 == [s EXCEPT !.eff[i].callbacks =
                   Append(@, [name |-> name, arg |-> arg])]
    IN  IF h.callback = "ok" THEN Return(s1)
        ELSE Raise(s1, Thrown(h.callback, "thrown by callback"))

\* HandshakeChannel.onProviderAnnouncement
\* (announcement is the payload; reading provider_id of an absent or null
\* payload throws before anything is stored; the key of a payload without
\* a provider_id is the string "undefined"; for the key __proto__ the
\* assignment stores no property and replaces the prototype)
onProviderAnnouncement(i, announcement, h, s) ==
    LET s1 == [s EXCEPT !.knownProviders[i] =
                   SetProperty(@, announcement.provider_id, announcement)]
    IN  IF PropertyReadThrows(announcement)
        THEN Raise(s, TypeError("cannot read property provider_id"))
        ELSE InvokeCallback(i, "onProviderAnnounced", announcement, h, s1)

\* onNotification that lets a notification of an unknown kind pass
onNotification_IgnoreUnknown(i, notification, h, s) ==
    IF notification.kind = "provider_announcement"
    THEN onProviderAnnouncement(i, notification.payload, h, s)
    ELSE Return(s)

\* HandshakeChannel.onNotification
onNotification(i, notification, h, s) ==
    IF notification.kind = "provider_announcement"
    THEN onProviderAnnouncement(i, notification.payload, h, s)
    ELSE Raise(s, assertNever(notification.kind))

\* HandshakeChannel.onProviderMessage
HandshakeOnProviderMessage(i, message, h, s) ==
    IF message.type = "notification" THEN onNotification(i, message, h, s)
    ELSE Raise(s, assertNever(message.type))

\* pendingRequests.find(p => p.correlationId === response.correlation_id):
\* the index of the first match, 0 when there is none
FindPending(requests, correlationId) ==
    LET hits == { k \in 1..Len(requests) :
                    requests[k].correlationId = correlationId }
    IN  IF hits = {} THEN 0
        ELSE CHOOSE k \in hits : \A m \in hits : k <= m

\* what line 170 throws: the Error naming JSON.stringify(response), or the
\* TypeError of JSON.stringify when the response cannot be serialised
NoMatchingRequest(response) ==
    IF JSONStringifyThrows(response.payload)
    THEN TypeError("Do not know how to serialize a BigInt")
    ELSE Thrown("Error", "Received a response without finding a matching request")

\* HotOstrichChannel.onHotOstrichResponse
onHotOstrichResponse(i, response, s) ==
    LET k == FindPending(s.pendingRequests[i], response.correlation_id)
    IN  IF k = 0
        THEN Raise(s, NoMatchingRequest(response))
        ELSE LET future == s.pendingRequests[i][k].future
             IN  IF response.success
                 THEN Return([s EXCEPT !.futures[future] =
                                 FutureResolve(@, response.payload)])
                 ELSE IF JSONStringifyThrows(response.payload)
                 THEN Raise(s, TypeError("Do not know how to serialize a BigInt"))
                 ELSE Return([s EXCEPT !.futures[future] =
                                 FutureReject(@, response.payload)])

\* HotOstrichChannel.onSignerAddressChanged
\* (payload.address is the v field of the payload; reading it of an absent
\* or null payload throws before the callback is called)
onSignerAddressChanged(i, notification, h, s) ==
    IF PropertyReadThrows(notification.payload)
    THEN Raise(s, TypeError("cannot read property address"))
    ELSE InvokeCallback(i, "onSignerAddressChanged", notification.payload.v, h, s)

\* onHotOstrichNotification that drops every notification
onHotOstrichNotification_Dropped(i, notification, h, s) == Return(s)

\* HotOstrichChannel.onHotOstrichNotification
onHotOstrichNotification(i, notification, h, s) ==
    IF notification.kind = "signer_address_changed"
    THEN onSignerAddressChanged(i, notification, h, s)
    ELSE Raise(s, assertNever(notification.kind))

\* HotOstrichChannel.onProviderMessage
HotOstrichOnProviderMessage(i, message, h, s) ==
    IF message.type = "response" THEN onHotOstrichResponse(i, message, s)
    ELSE IF message.type = "notification"
    THEN onHotOstrichNotification(i, message, h, s)
    ELSE Raise(s, assertNever(message))

\* the subclass's onProviderMessage
onProviderMessage(i, message, h, s) ==
    IF i \in HandshakeInstances THEN HandshakeOnProviderMessage(i, message, h, s)
    ELSE HotOstrichOnProviderMessage(i, message, h, s)

\* try block that hands every envelope to the handler, whatever its
\* channel, kind and message type
TryOnMessage_Unfiltered(i, data, h, s) ==
    IF isEthereumMessageEvent(data) = "true" /\ data.ethereum.shape = "object"
          /\ data.ethereum.hasMessage
    THEN onProviderMessage(i, data.ethereum.message, h,
                           [s EXCEPT !.eff[i].dispatched = TRUE])
    ELSE Return(s)

\* try block of Channel.onMessage
TryOnMessage(i, data, h, s) ==
    LET isEvent == isEthereumMessageEvent(data)
        envelope == data.ethereum
        isMessage == isProviderMessage(envelope.hasMessage, envelope.message)
    IN  IF isEvent = "throw"
        THEN Raise(s, TypeError("cannot use 'in' operator on null"))
        ELSE IF isEvent = "false" THEN Return(s)
        ELSE IF envelope.shape = "null"
        THEN Raise(s, TypeError("cannot read property of null"))
        ELSE IF envelope.channel # providerChannelName(i) THEN Return(s)
        ELSE IF ~isT(i, envelope) THEN Return(s)
        ELSE IF isMessage = "throw"
        THEN Raise(s, TypeError("cannot read property of undefined"))
        ELSE IF isMessage = "false" THEN Return(s)
        ELSE onProviderMessage(i, envelope.message, h,
                               [s EXCEPT !.eff[i].dispatched = TRUE])

\* Channel.onMessage: the try block, then the catch block, which hands the
\* normalized error to onError; what onError throws leaves the listener
onMessage(i, data, h, s) ==
    LET r == TryOnMessage(i, data, h, s)
    IN  IF r.thrown = NoThrow THEN r.s
        ELSE IF ~NormalizeError(r.thrown).called
        THEN [r.s EXCEPT !.eff[i].escaped = TRUE]
        ELSE [r.s EXCEPT !.eff[i].errors =
                             Append(@, NormalizeError(r.thrown).error),
                         !.eff[i].escaped = (h.onError # "ok")]

\* Script of the application runs after a listener and before the next one
\* when the listener called a callback or onError (which may call the
\* channels), let an exception reach the window, or settled a Future (whose
\* awaiting code runs at the microtask checkpoint that follows the listener).
WakesApplication(i, before, after) ==
    \/ after.eff[i].callbacks # << >>
    \/ after.eff[i].errors # << >>
    \/ after.eff[i].escaped
    \/ \E c \in DOMAIN before.futures :
          before.futures[c].state = "unsettled" /\ after.futures[c].state # "unsettled"

\* the state the handlers work on, with eff cleared for the new step
Current == [knownProviders |-> knownProviders, pendingRequests |-> pendingRequests,
            futures |-> futures, eff |-> AllQuiet]

-----------------------------------------------------------------------------
(* Outbound path *)

\* send that posts to the parent instead of, not besides, its own window
SendPosts_ParentOnly(i, message) ==
    LET data == EnvelopeData(Envelope(clientChannelName(i), kind(i), TRUE, message))
    IN  IF hasParent THEN << [target |-> "parent", data |-> data] >>
        ELSE << [target |-> "self", data |-> data] >>

\* postMessage clones the message and throws a DataCloneError when it holds
\* a function or a symbol
PostMessageThrows(message) == message.payload.shape = "uncloneable"

\* Channel.send: the postMessage calls that post something, in order; the
\* first call throws when the message cannot be cloned and nothing is posted
SendPosts(i, message) ==
    LET data == EnvelopeData(Envelope(clientChannelName(i), kind(i), TRUE, message))
    IN  IF PostMessageThrows(message) THEN << >>
        ELSE (IF hasParent THEN << [target |-> "parent", data |-> data] >> ELSE << >>)
             \o << [target |-> "self", data |-> data] >>

\* HandshakeChannel.announceClient: the message it sends
ClientAnnouncement == Message("broadcast", "client_announcement", 0, FALSE, EmptyPayload)

\* the request message promisify builds
RequestMessage(requestKind, correlationId, requestPayload) ==
    Message("request", requestKind, correlationId, FALSE, requestPayload)

\* the entry promisify pushes; future refers to the Future created for it
\* (entryTime, which nothing reads, is left out)
PendingRequest(requestKind, correlationId) ==
    [kind |-> requestKind, correlationId |-> correlationId, future |-> correlationId]

NoCall == [inst |-> "", kind |-> "", correlationId |-> 0]
\* the constructor of HandshakeChannel i between super(window) and its body
Constructing(i) == [inst |-> i, kind |-> "constructor", correlationId |-> 0]

Step(op, inst, data) == [op |-> op, inst |-> inst, data |-> data]

\* no message event is being dispatched
Idle == [op |-> "", data |-> NoData, h |-> WellBehaved, queue |-> << >>,
         woke |-> FALSE]

\* script of the application may call the channels: between tasks, and
\* during a dispatch after a listener that woke it
ScriptMayRun == running = NoCall /\ (dispatch = Idle \/ dispatch.woke)

\* the envelopes among posts that reach this window's own queue
RECURSIVE SelfPosts(_)
SelfPosts(posts) ==
    IF posts = << >> THEN << >>
    ELSE (IF Head(posts).target = "self" THEN << Head(posts).data >> ELSE << >>)
         \o SelfPosts(Tail(posts))

-----------------------------------------------------------------------------
(* Initial states.  The HotOstrichChannels r1 and r2 have been constructed  *)
(* (their constructor registers the listener and does nothing else); the   *)
(* HandshakeChannel hs either has been constructed too, before them, and   *)
(* has announced the client, or is yet to be constructed.                  *)

\* nothing received, no call made
Fresh ==
    /\ knownProviders = [i \in HandshakeInstances |-> EmptyObject]
    /\ pendingRequests = [i \in RpcInstances |-> << >>]
    /\ futures = << >>
    /\ nextId = 1
    /\ running = NoCall
    /\ delivered = 0
    /\ dispatch = Idle
    /\ eff = AllQuiet

InitWith(ids, parent) ==
    /\ listeners = << "hs", "r1", "r2" >>
    /\ constructed = Instances
    /\ providerId = ids
    /\ hasParent = parent
    /\ posted = SendPosts("hs", ClientAnnouncement)
    /\ bus = SelfPosts(posted)
    /\ Fresh
    /\ last = Step("announceClient", "hs", NoData)

\* before new HandshakeChannel(window, handlers)
InitBefore(ids, parent) ==
    /\ listeners = << "r1", "r2" >>
    /\ constructed = RpcInstances
    /\ providerId = ids
    /\ hasParent = parent
    /\ posted = << >>
    /\ bus = << >>
    /\ Fresh
    /\ last = Step("", "", NoData)

Init == \E ids \in [RpcInstances -> ProviderIds], parent \in BOOLEAN : InitBefore(ids, parent)

-----------------------------------------------------------------------------
(* Operations *)

\* Channel constructor, reached through super(window): addEventListener.
\* The constructor of a HotOstrichChannel does nothing more; that of a
\* HandshakeChannel goes on with its body.
ChannelConstructor(i) ==
    /\ ScriptMayRun
    /\ i \notin constructed
    /\ constructed' = constructed \cup {i}
    /\ listeners' = Append(listeners, i)
    /\ running' = IF i \in HandshakeInstances THEN Constructing(i) ELSE NoCall
    /\ eff' = AllQuiet
    /\ last' = Step("construct", i, NoData)
    /\ UNCHANGED << providerId, hasParent, bus, posted, knownProviders,
                    pendingRequests, futures, nextId, delivered, dispatch >>

\* HandshakeChannel constructor, its body: this.announceClient()
ConstructorAnnounce ==
    /\ running # NoCall
    /\ running.kind = "constructor"
    /\ posted' = posted \o SendPosts(running.inst, ClientAnnouncement)
    /\ bus' = bus \o SelfPosts(SendPosts(running.inst, ClientAnnouncement))
    /\ running' = NoCall
    /\ eff' = AllQuiet
    /\ last' = Step("announceClient", running.inst, NoData)
    /\ UNCHANGED << listeners, providerId, hasParent, constructed, knownProviders,
                    pendingRequests, futures, nextId, delivered, dispatch >>

\* removeEventListener that finds no such listener
RemoveListener_Noop(ls, i) == ls

\* Channel.shutdown: removeEventListener
RemoveListener(ls, i) == SelectSeq(ls, LAMBDA x : x # i)

Shutdown(i) ==
    /\ ScriptMayRun
    /\ i \in constructed
    /\ listeners' = RemoveListener(listeners, i)
    /\ dispatch' = IF RemoveListener(dispatch.queue, i) = << >> THEN Idle
                   ELSE [dispatch EXCEPT !.queue = RemoveListener(@, i)]
    /\ eff' = AllQuiet
    /\ last' = Step("shutdown", i, NoData)
    /\ UNCHANGED << providerId, hasParent, constructed, bus, posted, knownProviders,
                    pendingRequests, futures, nextId, running, delivered >>

\* reRequestProviders() calls made so far: every broadcast posted to the own
\* window but the constructor's
ReRequests ==
    Len(SelectSeq(SelfPosts(posted),
                  LAMBDA d : d.ethereum.message.type = "broadcast")) - 1

\* HandshakeChannel.reRequestProviders
ReRequestProviders(i) ==
    /\ ScriptMayRun
    /\ i \in constructed
    /\ ReRequests < MaxReRequest
    /\ posted' = posted \o SendPosts(i, ClientAnnouncement)
    /\ bus' = bus \o SelfPosts(SendPosts(i, ClientAnnouncement))
    /\ eff' = AllQuiet
    /\ last' = Step("reRequestProviders", i, NoData)
    /\ UNCHANGED << listeners, providerId, hasParent, constructed, knownProviders,
                    pendingRequests, futures, nextId, running, delivered,
                    dispatch >>

\* HotOstrichChannel.promisify, up to and including this.send(message):
\* a typed method was called with kind requestKind and requestPayload.  When
\* send throws, the correlation id is spent, nothing is posted and promisify
\* is left by the exception: no Future is made and nothing is pushed.
PromisifySend(i, requestKind, requestPayload) ==
    /\ ScriptMayRun
    /\ nextId <= MaxCalls
    /\ LET message == RequestMessage(requestKind, nextId, requestPayload)
       IN  /\ posted' = posted \o SendPosts(i, message)
           /\ bus' = bus \o SelfPosts(SendPosts(i, message))
           /\ running' = IF PostMessageThrows(message) THEN NoCall
                         ELSE [inst |-> i, kind |-> requestKind,
                               correlationId |-> nextId]
           /\ last' = Step(IF PostMessageThrows(message) THEN "sendThrew"
                           ELSE "send", i, NoData)
    /\ nextId' = nextId + 1
    /\ eff' = AllQuiet
    /\ UNCHANGED << listeners, providerId, hasParent, constructed, knownProviders,
                    pendingRequests, futures, delivered, dispatch >>

\* HotOstrichChannel.promisify, from new Future() to the return
PromisifyPush ==
    /\ running # NoCall
    /\ running.kind # "constructor"
    /\ futures' = (running.correlationId :> NewFuture) @@ futures
    /\ pendingRequests' =
          [pendingRequests EXCEPT ![running.inst] =
              Append(@, PendingRequest(running.kind, running.correlationId))]
    /\ running' = NoCall
    /\ eff' = AllQuiet
    /\ last' = Step("push", running.inst, NoData)
    /\ UNCHANGED << listeners, providerId, hasParent, constructed, bus, posted,
                    knownProviders, nextId, delivered, dispatch >>

\* The window invokes the next listener of the event being dispatched: the
\* head of queue, the listeners registered when the dispatch began less those
\* removed since.  A listener that throws does not stop the others.
InvokeListener(op, data, h, queue) ==
    IF queue = << >>
    THEN /\ dispatch' = Idle
         /\ eff' = AllQuiet
         /\ last' = Step(op, "", data)
         /\ UNCHANGED << knownProviders, pendingRequests, futures >>
    ELSE LET i == Head(queue)
             s == onMessage(i, data, h, Current)
         IN  /\ knownProviders' = s.knownProviders
             /\ pendingRequests' = s.pendingRequests
             /\ futures' = s.futures
             /\ eff' = s.eff
             /\ last' = Step(op, i, data)
             /\ dispatch' =
                   IF Tail(queue) = << >> THEN Idle
                   ELSE [op |-> op, data |-> data, h |-> h, queue |-> Tail(queue),
                         woke |-> WakesApplication(i, Current, s)]

\* an event posted by a provider or by any other script on the bus: its
\* dispatch begins with the first listener
EnvPost(data, h) ==
    /\ running = NoCall
    /\ dispatch = Idle
    /\ delivered < MaxDeliver
    /\ delivered' = delivered + 1
    /\ InvokeListener("deliver", data, h, listeners)
    /\ UNCHANGED << listeners, providerId, hasParent, constructed, bus, posted, nextId, running >>

\* the oldest envelope a channel posted to its own window: its dispatch
\* begins with the first listener
DeliverOwn(h) ==
    /\ running = NoCall
    /\ dispatch = Idle
    /\ bus # << >>
    /\ bus' = Tail(bus)
    /\ InvokeListener("deliverOwn", Head(bus), h, listeners)
    /\ UNCHANGED << listeners, providerId, hasParent, constructed, posted, nextId, running,
                    delivered >>

\* the dispatch under way goes on with its next listener
NextListener ==
    /\ running = NoCall
    /\ dispatch # Idle
    /\ InvokeListener(dispatch.op, dispatch.data, dispatch.h, dispatch.queue)
    /\ UNCHANGED << listeners, providerId, hasParent, constructed, bus, posted, nextId, running,
                    delivered >>

-----------------------------------------------------------------------------
(* Events the environment can post *)

\* The typed methods differ only in the kind they hand to promisify and in
\* the field of the result they return; the runs call two of them.  The
\* responses carry the ids the runs can issue.
CallKinds == {"get_signer_address", "sign_message"}
CorrelationIds == 1..MaxCalls

RpcProviderChannel(p) == ChannelName(HOTOSTRICH_PROVIDER_CHANNEL_PREFIX, p)
RpcClientChannel(p) == ChannelName(HOTOSTRICH_CLIENT_CHANNEL_PREFIX, p)

Response(p, k, c, ok, v) ==
    EnvelopeData(Envelope(RpcProviderChannel(p), HOTOSTRICH_KIND, TRUE,
                          Message("response", k, c, ok, Payload("", v))))

RpcNotification(p, k, v) ==
    EnvelopeData(Envelope(RpcProviderChannel(p), HOTOSTRICH_KIND, TRUE,
                          Message("notification", k, 0, FALSE, Payload("", v))))

HandshakeMessage(type, k, pid, v) ==
    EnvelopeData(Envelope(HANDSHAKE_PROVIDER_CHANNEL_NAME, HANDSHAKE_KIND, TRUE,
                          Message(type, k, 0, FALSE, Payload(pid, v))))

\* the same event with another payload in its message
WithPayload(data, payload) == [data EXCEPT !.ethereum.message.payload = payload]

\* what provider p1 can post on its channel: successes with either value,
\* failures with one
Responses ==
    { Response("p1", "get_signer_address", c, TRUE, v) :
        c \in CorrelationIds, v \in Values }
    \cup { Response("p1", "get_signer_address", c, FALSE, "v1") :
             c \in CorrelationIds }

\* failure responses whose payload holds a BigInt
UnserialisableFailures ==
    { Response("p1", "get_signer_address", c, FALSE, BigIntValue) :
        c \in CorrelationIds }

RpcNotifications ==
    { RpcNotification("p1", k, "v1") : k \in {"signer_address_changed", "unknown_kind"} }
    \cup { WithPayload(RpcNotification("p1", "signer_address_changed", ""),
                       NoPayload("undefined")) }

Announcements ==
    { HandshakeMessage("notification", "provider_announcement", pid, v) :
        pid \in ProviderIds, v \in Values }

\* announcements under the id __proto__, with and without the other field
\* of the payload, and one whose payload has no provider_id
OddlyNamedAnnouncements ==
    { HandshakeMessage("notification", "provider_announcement", ProtoKey, v) :
        v \in Values \cup {""} }
    \cup { HandshakeMessage("notification", "provider_announcement", Undefined, "v1") }

HandshakeOddities ==
    { HandshakeMessage("notification", "unknown_kind", "p1", "v1"),
      HandshakeMessage("response", "provider_announcement", "p1", "v1") }

RpcEvents == Responses \cup UnserialisableFailures \cup RpcNotifications
\* announcements without a payload, or with null for it
PayloadlessAnnouncements ==
    { WithPayload(HandshakeMessage("notification", "provider_announcement", "", ""),
                  NoPayload(shape)) : shape \in {"undefined", "null"} }

HandshakeEvents ==
    Announcements \cup OddlyNamedAnnouncements \cup PayloadlessAnnouncements
        \cup HandshakeOddities

\* payloads that are not envelope-shaped objects
NotEnvelopes ==
    { Data("primitive", FALSE, NoEnvelope("undefined")),
      Data("null", FALSE, NoEnvelope("undefined")),
      Data("object", FALSE, NoEnvelope("undefined")),
      Data("object", TRUE, NoEnvelope("primitive")),
      Data("object", TRUE, NoEnvelope("null")) }

ProviderChannels ==
    {HANDSHAKE_PROVIDER_CHANNEL_NAME} \cup { RpcProviderChannel(p) : p \in ProviderIds }
AllChannels ==
    ProviderChannels
        \cup {HANDSHAKE_CLIENT_CHANNEL_NAME, RpcClientChannel("p1"), OtherChannel}
AllKinds == {HANDSHAKE_KIND, HOTOSTRICH_KIND, "other_kind"}

\* envelopes without a message field
NoMessageEnvelopes ==
    { EnvelopeData(Envelope(c, k, FALSE, NoMessage)) :
        c \in ProviderChannels, k \in {HANDSHAKE_KIND, HOTOSTRICH_KIND} }

\* well-formed envelopes, on any channel, of any kind and type
SampleMessages ==
    { Message("response", "get_signer_address", 1, TRUE, Payload("", "v1")),
      Message("notification", "signer_address_changed", 0, FALSE, Payload("", "v1")),
      Message("notification", "provider_announcement", 0, FALSE, Payload("p1", "v1")),
      Message("request", "get_signer_address", 1, FALSE, EmptyPayload),
      ClientAnnouncement }
WellFormedEnvelopes ==
    { EnvelopeData(Envelope(c, k, TRUE, m)) :
        c \in AllChannels, k \in AllKinds, m \in SampleMessages }

FilterEvents == NotEnvelopes \cup NoMessageEnvelopes \cup WellFormedEnvelopes

-----------------------------------------------------------------------------
(* Specifications *)

\* a typed method, of a kind in ks, is called on one of the channels in is
IssueCall(is, ks, ps) == \E i \in is, k \in ks, p \in ps : PromisifySend(i, k, p)

\* request payloads: one postMessage can clone, one it cannot
Cloneable == {EmptyPayload}
AnyRequestPayload == {EmptyPayload, UncloneablePayload}

\* the environment posts one of events; the callbacks behave as one of hs
Post(events, hs) == \E d \in events, h \in hs : EnvPost(d, h)

\* r1 serves provider p1 and r2 provider p2; the window is a top-level one
InitApart ==
    InitWith([i \in RpcInstances |-> IF i = "r1" THEN "p1" ELSE "p2"], FALSE)

\* The request/response engine of one channel: typed calls on r1, the
\* responses and notifications of its provider, shutdown.
NextRpc ==
    \/ IssueCall({"r1"}, CallKinds, AnyRequestPayload)
    \/ PromisifyPush
    \/ NextListener
    \/ Post(Responses \cup UnserialisableFailures, OnErrorBehaviours)
    \/ Post(RpcNotifications, SomeBehaviours)
    \/ DeliverOwn(WellBehaved)
    \/ Shutdown("r1")

SpecRpc == InitApart /\ [][NextRpc]_vars

\* The handshake: announcements, re-announcement, shutdown.
NextHandshake ==
    \/ \E i \in HandshakeInstances : ChannelConstructor(i)
    \/ ConstructorAnnounce
    \/ NextListener
    \/ \E i \in HandshakeInstances : ReRequestProviders(i)
    \/ Post(HandshakeEvents, SomeBehaviours)
    \/ DeliverOwn(WellBehaved)
    \/ \E i \in HandshakeInstances : Shutdown(i)

SpecHandshake == Init /\ [][NextHandshake]_vars

\* The inbound filter: any payload on the bus, with calls outstanding.
NextFilter ==
    \/ IssueCall({"r1"}, {"get_signer_address"}, Cloneable)
    \/ PromisifyPush
    \/ NextListener
    \/ Post(FilterEvents, {WellBehaved, Hostile})
    \/ DeliverOwn(WellBehaved)

SpecFilter == InitApart /\ [][NextFilter]_vars

\* Shutdown of any channel, at any time, among calls, responses,
\* notifications and announcements.
ShutdownResponses ==
    { Response("p1", "get_signer_address", c, ok, "v1") :
        c \in CorrelationIds, ok \in BOOLEAN }
    \cup { Response("p2", "get_signer_address", 1, TRUE, "v1") }

ShutdownNotifications ==
    { RpcNotification("p1", "signer_address_changed", "v1"),
      RpcNotification("p2", "signer_address_changed", "v1"),
      HandshakeMessage("notification", "provider_announcement", "p1", "v1"),
      HandshakeMessage("notification", "unknown_kind", "p1", "v1") }

NextShutdown ==
    \/ IssueCall({"r1"}, {"get_signer_address"}, Cloneable)
    \/ PromisifyPush
    \/ NextListener
    \/ Post(ShutdownResponses, OnErrorBehaviours)
    \/ Post(ShutdownNotifications, SomeBehaviours)
    \/ DeliverOwn(WellBehaved)
    \/ \E i \in Instances : Shutdown(i)

SpecShutdown == InitApart /\ [][NextShutdown]_vars

\* Two HotOstrichChannels side by side, for the same provider or for two
\* providers, each with calls outstanding.
InitTwo ==
    \E p \in ProviderIds :
        InitWith([i \in RpcInstances |-> IF i = "r1" THEN "p1" ELSE p], FALSE)

TwoEvents ==
    { Response(p, "get_signer_address", c, ok, "v1") :
        p \in ProviderIds, c \in CorrelationIds, ok \in BOOLEAN }
    \cup { Response("p1", "get_signer_address", c, ok, BigIntValue) :
             c \in CorrelationIds, ok \in BOOLEAN }
    \cup { RpcNotification(p, "signer_address_changed", "v1") : p \in ProviderIds }

NextTwo ==
    \/ IssueCall(RpcInstances, {"get_signer_address"}, Cloneable)
    \/ PromisifyPush
    \/ NextListener
    \/ Post(TwoEvents, {WellBehaved, Hostile})
    \/ Shutdown("r2")

SpecTwo == InitTwo /\ [][NextTwo]_vars

\* A provider that answers: it posts one response, success or failure, to a
\* request it has not answered yet.
ProviderReply(c, ok, v, h) ==
    /\ c \in DOMAIN futures
    /\ futures[c].state = "unsettled"
    /\ EnvPost(Response("p1", "get_signer_address", c, ok, v), h)

Reply(c) ==
    \E ok \in BOOLEAN, v \in Values \cup {BigIntValue} :
        ProviderReply(c, ok, v, WellBehaved)

NextLive ==
    \/ IssueCall({"r1"}, CallKinds, Cloneable)
    \/ PromisifyPush
    \/ NextListener
    \/ \E c \in CorrelationIds : Reply(c)

\* promisify runs to its return, and every request is answered in the end
SpecLive ==
    /\ InitApart
    /\ [][NextLive]_vars
    /\ WF_vars(PromisifyPush)
    /\ WF_vars(NextListener)
    /\ \A c \in CorrelationIds : WF_vars(Reply(c))

\* Messages outside the vocabulary, among announcements, notifications and
\* calls: what the handlers do with a type or kind they do not know.
VocabularyEvents ==
    HandshakeOddities
    \cup { HandshakeMessage("notification", "provider_announcement", "p1", "v1") }
    \cup RpcNotifications

NextVocabulary ==
    \/ IssueCall({"r1"}, {"get_signer_address"}, Cloneable)
    \/ PromisifyPush
    \/ NextListener
    \/ Post(VocabularyEvents, HandlerBehaviours)

SpecVocabulary == InitApart /\ [][NextVocabulary]_vars

\* every operation, every event
Next ==
    \/ \E i \in Instances : ChannelConstructor(i)
    \/ ConstructorAnnounce
    \/ IssueCall(RpcInstances, RequestKinds, AnyRequestPayload)
    \/ PromisifyPush
    \/ NextListener
    \/ \E i \in HandshakeInstances : ReRequestProviders(i)
    \/ Post(RpcEvents \cup HandshakeEvents \cup FilterEvents, HandlerBehaviours)
    \/ \E h \in HandlerBehaviours : DeliverOwn(h)
    \/ \E i \in Instances : Shutdown(i)

Spec == Init /\ [][Next]_vars

-----------------------------------------------------------------------------
(* Vocabulary of the properties *)

\* the last step invoked a listener (last.inst) with a message event
Delivered == last.op \in {"deliver", "deliverOwn"}
LastEnvelope == last.data.ethereum
LastMessage == last.data.ethereum.message

\* i's listener is registered on the window
Listening(i) == \E k \in 1..Len(listeners) : listeners[k] = i

\* the last event is an envelope-shaped object
EnvelopeShaped ==
    /\ last.data.shape = "object"
    /\ last.data.hasEthereum
    /\ LastEnvelope.shape = "object"

\* the last event is an envelope on i's own provider channel and kind
OnOwnChannel(i) ==
    /\ Delivered
    /\ EnvelopeShaped
    /\ LastEnvelope.channel = providerChannelName(i)
    /\ LastEnvelope.kind = kind(i)

\* the listener of i has just been invoked with such an envelope
Addressed(i) == last.inst = i /\ OnOwnChannel(i)

ResponseTo(i) ==
    Addressed(i) /\ LastEnvelope.hasMessage /\ LastMessage.type = "response"

NotificationTo(i, k) ==
    /\ Addressed(i)
    /\ LastEnvelope.hasMessage
    /\ LastMessage.type = "notification"
    /\ LastMessage.kind = k

\* correlation ids of the calls issued on i
Issued(i) == { pendingRequests[i][k].correlationId : k \in 1..Len(pendingRequests[i]) }

Unsettled(c) == futures[c].state = "unsettled"

\* the Future of call c as a response message settles it
SettledBy(message) ==
    [state |-> IF message.success THEN "resolved" ELSE "rejected",
     value |-> message.payload, calls |-> 1]

-----------------------------------------------------------------------------
(* Properties *)

\* C1: a call's Future is resolved or rejected only in the dispatch of a
\* response carrying the call's correlation id on its channel, and resolve or
\* reject is invoked on it at most once in total.
C1_SettledOnceAndOnlyByItsResponse ==
    [][\A i \in RpcInstances : \A c \in Issued(i)' :
          /\ futures'[c].calls <= 1
          /\ c \notin DOMAIN futures => futures'[c] = NewFuture
          /\ (c \in DOMAIN futures /\ futures'[c] # futures[c])
               => (ResponseTo(i)' /\ LastMessage'.correlation_id = c)]_vars

\* C2: a second response for an id whose call is already settled is reported
\* through onError, invokes neither resolve nor reject, and leaves every
\* other call as it was.
C2_DuplicateResponseIsNotFound ==
    [][\A i \in RpcInstances :
          (/\ ResponseTo(i)'
           /\ Listening(i)
           /\ LastMessage'.correlation_id \in Issued(i)
           /\ ~Unsettled(LastMessage'.correlation_id))
          => /\ Len(eff'[i].errors) = 1
             /\ futures' = futures
             /\ pendingRequests' = pendingRequests]_vars

\* C3: a response whose correlation id the instance never issued makes one
\* onError call with an Error, settles nothing, leaves the pending table
\* unchanged, and no exception leaves the listener.
C3_UnknownIdReportedOnce ==
    [][\A i \in RpcInstances :
          (/\ ResponseTo(i)'
           /\ Listening(i)
           /\ LastMessage'.correlation_id \notin Issued(i))
          => /\ Len(eff'[i].errors) = 1
             /\ eff'[i].errors[1].cls = "Error"
             /\ ~eff'[i].escaped
             /\ futures' = futures
             /\ pendingRequests' = pendingRequests]_vars

\* the state instance i owns: its directory, or its pending table with the
\* Futures of its calls
Owned(i) ==
    IF i \in HandshakeInstances THEN << knownProviders[i] >>
    ELSE << pendingRequests[i], [c \in Issued(i) |-> futures[c]] >>

\* the last event is a well-formed envelope that is not for i: another
\* channel, another kind, or a client-originated message type
NotForInstance(i) ==
    /\ Delivered
    /\ last.inst = i
    /\ EnvelopeShaped
    /\ LastEnvelope.hasMessage
    /\ \/ LastEnvelope.channel # providerChannelName(i)
       \/ LastEnvelope.kind # kind(i)
       \/ LastMessage.type \in {"request", "broadcast"}

\* C4: a well-formed envelope on another channel, of another kind or of a
\* client-originated type invokes neither onProviderMessage nor onError nor
\* any callback of the instance and changes no state the instance owns.
C4_ForeignEnvelopeIgnored ==
    [][\A i \in Instances :
          NotForInstance(i)' => (eff'[i] = Quiet /\ Owned(i)' = Owned(i))]_vars

\* a registered listener with a call outstanding has just been handed an
\* envelope on its own channel whose kind is another protocol's
C4_Witness ==
    /\ Delivered /\ EnvelopeShaped /\ LastEnvelope.hasMessage
    /\ last.inst = "r1"
    /\ Listening("r1")
    /\ LastEnvelope.channel = providerChannelName("r1")
    /\ LastEnvelope.kind = HANDSHAKE_KIND
    /\ LastMessage.type = "response"
    /\ LastMessage.correlation_id \in Issued("r1")
    /\ Unsettled(LastMessage.correlation_id)

\* the last event is not envelope-shaped for i: a non-object or null
\* payload, no envelope key, an envelope value that is null or no object, or
\* an envelope on i's channel and kind without a message field
NotAnEnvelopeFor(i) ==
    /\ Delivered
    /\ last.inst = i
    /\ \/ ~EnvelopeShaped
       \/ (Addressed(i) /\ ~LastEnvelope.hasMessage)

\* C5: an event whose payload is not an envelope-shaped object is ignored
\* silently: neither onProviderMessage nor onError is invoked.
C5_MalformedPayloadIgnored ==
    \A i \in Instances :
        (NotAnEnvelopeFor(i) /\ Listening(i))
        => (~eff[i].dispatched /\ eff[i].errors = << >>)

\* C6: a call is settled only by the response carrying its own correlation
\* id, with that response's payload, whatever else is outstanding and in
\* whatever order the responses arrive; no other call is touched.
C6_EachCallSettledByItsOwnResponse ==
    [][\A i \in RpcInstances : \A c \in Issued(i) :
          /\ futures'[c] # futures[c]
               => (ResponseTo(i)' /\ LastMessage'.correlation_id = c)
          /\ (/\ ResponseTo(i)' /\ Listening(i)
              /\ LastMessage'.correlation_id = c /\ Unsettled(c))
               => /\ futures'[c] = SettledBy(LastMessage')
                  /\ \A d \in (DOMAIN futures) \ {c} : futures'[d] = futures[d]]_vars

\* C7: a failure response for an unsettled call rejects that call with the
\* failure payload and does not resolve it, touches no other call and does
\* not invoke onError.
C7_FailureRejectsOnlyItsCall ==
    [][\A i \in RpcInstances : \A c \in Issued(i) :
          (/\ ResponseTo(i)' /\ Listening(i)
           /\ LastMessage'.correlation_id = c /\ Unsettled(c)
           /\ ~LastMessage'.success)
          => /\ futures'[c].state = "rejected"
             /\ futures'[c].value = LastMessage'.payload
             /\ \A d \in (DOMAIN futures) \ {c} : futures'[d] = futures[d]
             /\ eff'[i].errors = << >>
             /\ ~eff'[i].escaped]_vars

\* C8: whatever the event and whatever the callbacks do, no exception
\* leaves a channel's listener.
C8_ListenerNeverThrows == \A i \in Instances : ~eff[i].escaped

\* C9: shutdown() deregisters the listener for good; afterwards no event
\* invokes onProviderMessage, onError or a callback of the instance, the
\* calls pending on it keep their entries and their Futures stay as they
\* were, and a further shutdown() changes nothing.
C9_InertAfterShutdown ==
    [][\A i \in Instances :
         /\ (last'.op = "shutdown" /\ last'.inst = i) => ~Listening(i)'
         /\ ~Listening(i)
            => /\ ~Listening(i)'
               /\ eff'[i] = Quiet
               /\ i \in HandshakeInstances => knownProviders'[i] = knownProviders[i]
               /\ i \in RpcInstances
                    => /\ SubSeq(pendingRequests'[i], 1, Len(pendingRequests[i]))
                            = pendingRequests[i]
                       /\ \A c \in Issued(i) : futures'[c] = futures[c]
               /\ (last'.op = "shutdown" /\ last'.inst = i)
                    => /\ listeners' = listeners
                       /\ pendingRequests' = pendingRequests
                       /\ futures' = futures
                       /\ knownProviders' = knownProviders
                       /\ bus' = bus /\ posted' = posted]_vars

\* r1 was shut down with call 1 pending, and a response carrying id 1 has
\* just been posted on its channel
C9_Witness ==
    /\ ~Listening("r1")
    /\ 1 \in Issued("r1") /\ Unsettled(1)
    /\ OnOwnChannel("r1") /\ LastMessage.type = "response"
    /\ LastMessage.correlation_id = 1

\* the last event is a provider_announcement on the handshake channel
AnnouncementTo(i) == NotificationTo(i, "provider_announcement")

\* keys the directory can be read under: the ids announced, and the names
\* of the fields of a payload
DirectoryKeys == ProviderIds \cup {ProtoKey, Undefined} \cup PayloadFields

\* C10: an announcement received for provider id P leaves the directory with
\* an entry for P that holds its payload, changes what the directory holds
\* under no other key and removes no entry; nothing else (an announcement
\* that carries no payload, reRequestProviders) changes the directory.
C10_DirectoryUpsertOnly ==
    [][\A i \in HandshakeInstances :
          IF AnnouncementTo(i)' /\ ~PropertyReadThrows(LastMessage'.payload)
          THEN LET a == LastMessage'.payload
                   P == a.provider_id
               IN  /\ P \in DOMAIN knownProviders'[i].own
                   /\ GetProperty(knownProviders'[i], P) = ObjectValue(a)
                   /\ \A k \in DirectoryKeys \ {P} :
                         GetProperty(knownProviders'[i], k)
                             = GetProperty(knownProviders[i], k)
                   /\ DOMAIN knownProviders[i].own
                         \subseteq DOMAIN knownProviders'[i].own
          ELSE knownProviders'[i] = knownProviders[i]]_vars

\* the postMessage calls made so far on the given window
PostedTo(target) == SelectSeq(posted, LAMBDA x : x.target = target)

\* one post of the client announcement on the given window
AnnouncementPost(target) ==
    [target |-> target,
     data |-> [shape |-> "object", hasEthereum |-> TRUE,
               ethereum |-> [shape |-> "object",
                             channel |-> HANDSHAKE_CLIENT_CHANNEL_NAME,
                             kind |-> HANDSHAKE_KIND,
                             hasMessage |-> TRUE,
                             message |-> [type |-> "broadcast",
                                          kind |-> "client_announcement",
                                          correlation_id |-> 0,
                                          success |-> FALSE,
                                          payload |-> EmptyPayload]]]]

\* the posts of the HandshakeChannel: the constructor's announceClient and
\* each reRequestProviders() post one announcement to the own window and one
\* to the parent window when there is one; nothing else posts
OneAnnouncementPerCall ==
    IF last'.op \in {"announceClient", "reRequestProviders"}
    THEN /\ PostedTo("self")' = Append(PostedTo("self"), AnnouncementPost("self"))
         /\ PostedTo("parent")' =
               IF hasParent
               THEN Append(PostedTo("parent"), AnnouncementPost("parent"))
               ELSE << >>
         /\ bus' = Append(bus, AnnouncementPost("self").data)
    ELSE posted' = posted

\* the constructor of a HandshakeChannel runs once, registers the listener
\* and then, with nothing in between, announces: the announcement is its
\* first post, and the listener is registered when it is made
ConstructionAnnounces ==
    /\ last'.op = "construct"
         => /\ last'.inst \notin constructed
            /\ listeners' = Append(listeners, last'.inst)
            /\ last'.inst \in HandshakeInstances => running' = Constructing(last'.inst)
    /\ (running # NoCall /\ running.kind = "constructor")
         => last'.op = "announceClient"
    /\ last'.op = "announceClient"
         => /\ running = Constructing(last'.inst)
            /\ Listening(last'.inst)
            /\ posted = << >>

OnChannelOf(p) ==
    /\ Delivered
    /\ EnvelopeShaped
    /\ LastEnvelope.channel =
          [prefix |-> HOTOSTRICH_PROVIDER_CHANNEL_PREFIX, id |-> p]

\* C12: with two channels constructed for different provider ids, an event
\* on the provider channel of one neither settles a call of the other, nor
\* invokes its handlers or callbacks, nor raises its onError, whatever
\* correlation ids either has outstanding.
C12_OtherProviderUntouched ==
    [][\A i, j \in RpcInstances :
          (providerId[i] # providerId[j] /\ OnChannelOf(providerId[i])')
          => (eff'[j] = Quiet /\ Owned(j)' = Owned(j))]_vars

\* r1 (provider p1) and r2 (provider p2) each have a call outstanding, and a
\* response carrying the id of r2's call has just arrived on p1's channel
C12_Witness ==
    /\ providerId["r1"] = "p1" /\ providerId["r2"] = "p2"
    /\ Issued("r1") # {} /\ Issued("r2") # {}
    /\ OnChannelOf("p1")
    /\ LastEnvelope.hasMessage /\ LastMessage.type = "response"
    /\ LastMessage.correlation_id \in Issued("r2")
    /\ Unsettled(LastMessage.correlation_id)
    /\ last.inst = "r2" /\ eff["r2"] = Quiet

\* the listeners the window invokes after that of i
RECURSIVE After(_, _)
After(ls, i) ==
    IF ls = << >> THEN << >>
    ELSE IF Head(ls) = i THEN Tail(ls) ELSE After(Tail(ls), i)

\* C20: with two channels for the same provider id, a response handed to the
\* listener of one is still to be handed to every listening channel after
\* it; a response for an unsettled call settles it in the instance that
\* issued it, and the other instance, when its listener is invoked with it,
\* finds no such id in its table, settles nothing and reports the
\* no-matching-request Error, once, through onError.
C20_SameProviderOtherInstanceReports ==
    [][\A i, j \in RpcInstances : \A c \in Issued(i) :
          (/\ i # j /\ providerId[i] = providerId[j]
           /\ LastMessage'.correlation_id = c)
          => /\ (ResponseTo(i)' /\ Unsettled(c))
                  => /\ eff'[i].dispatched
                     /\ dispatch'.queue = After(listeners, i)
                     /\ futures'[c] = SettledBy(LastMessage')
                     /\ eff'[i].errors = << >>
             /\ ResponseTo(j)'
                  => /\ eff'[j].dispatched
                     /\ eff'[j].errors =
                          << Thrown("Error",
                                    "Received a response without finding a matching request") >>
                     /\ c \notin Issued(j)
                     /\ futures' = futures
                     /\ pendingRequests' = pendingRequests]_vars

\* C13: on a channel that is listening, the first response carrying the id of
\* a pending call settles that call in that dispatch, resolving it with the
\* response's payload when success is true and rejecting it with the payload
\* when success is false; so when every request is answered in the end,
\* every call issued is settled in the end.
C13_FirstResponseSettles ==
    /\ [][\A i \in RpcInstances : \A c \in Issued(i) :
            (/\ ResponseTo(i)' /\ Listening(i)
             /\ LastMessage'.correlation_id = c /\ futures[c].calls = 0)
            => /\ futures'[c].calls = 1
               /\ futures'[c].value = LastMessage'.payload
               /\ futures'[c].state =
                     IF LastMessage'.success THEN "resolved" ELSE "rejected"]_vars
    /\ []<>(\A c \in CorrelationIds :
                c < nextId => (c \in DOMAIN futures /\ ~Unsettled(c)))

\* what onError receives when a caller-supplied callback throws
CallbackErrors ==
    { NormalizeError(Thrown(cls, "thrown by callback")).error :
        cls \in {"Error", "string", "object"} }

\* C14 as stated: a signer_address_changed notification on the instance's
\* own channel and kind invokes onSignerAddressChanged once with the address,
\* leaves the pending table and every Future unchanged, and never invokes
\* onError.
C14_NotificationNeverReportsError ==
    [][\A i \in RpcInstances :
          (NotificationTo(i, "signer_address_changed")' /\ Listening(i))
          => /\ eff'[i].callbacks =
                   << [name |-> "onSignerAddressChanged",
                       arg |-> LastMessage'.payload.v] >>
             /\ pendingRequests' = pendingRequests
             /\ futures' = futures
             /\ eff'[i].errors = << >>]_vars

\* C14, amended: a signer_address_changed notification on the instance's own
\* channel and kind leaves the pending table and every Future unchanged; when
\* it carries a payload it invokes onSignerAddressChanged once with the
\* address, and onError is invoked at most once, and only with what the
\* callback itself threw; when it carries none it invokes no callback and is
\* reported once through onError.
C14_NotificationInvokesCallbackOnce ==
    [][\A i \in RpcInstances :
          (NotificationTo(i, "signer_address_changed")' /\ Listening(i))
          => /\ pendingRequests' = pendingRequests
             /\ futures' = futures
             /\ IF PropertyReadThrows(LastMessage'.payload)
                THEN /\ eff'[i].callbacks = << >>
                     /\ eff'[i].errors =
                           << TypeError("cannot read property address") >>
                ELSE /\ eff'[i].callbacks =
                           << [name |-> "onSignerAddressChanged",
                               arg |-> LastMessage'.payload.v] >>
                     /\ \/ eff'[i].errors = << >>
                        \/ /\ Len(eff'[i].errors) = 1
                           /\ eff'[i].errors[1] \in CallbackErrors]_vars

C14_Witness ==
    /\ NotificationTo("r1", "signer_address_changed")
    /\ Len(pendingRequests["r1"]) = MaxCalls
    /\ \E c \in Issued("r1") : Unsettled(c)
    /\ eff["r1"].callbacks =
          << [name |-> "onSignerAddressChanged", arg |-> "v1"] >>
    /\ eff["r1"].errors = << Thrown("Error", "thrown by callback") >>

\* the request envelopes instance i has published so far
PublishedRequests(i) ==
    { posted[k].data.ethereum.message : k \in
        { n \in 1..Len(posted) :
            /\ posted[n].data.ethereum.channel = clientChannelName(i)
            /\ posted[n].data.ethereum.kind = kind(i)
            /\ posted[n].data.ethereum.message.type = "request" } }

\* C15: in no state has a request with correlation id X been published
\* while the pending table of the publishing instance holds no entry for X.
C15_EntryBeforePublication ==
    \A i \in RpcInstances :
        \A request \in PublishedRequests(i) : request.correlation_id \in Issued(i)

\* the calls of i whose Future exists and is not settled
InFlight(i) == { c \in Issued(i) : Unsettled(c) }

\* C16: the pending table of an RPC channel holds one entry for each call
\* issued and not yet settled and none for a settled call, so its size is the
\* number of calls in flight.
C16_TableHoldsExactlyInFlightCalls ==
    \A i \in RpcInstances :
        /\ \A k \in 1..Len(pendingRequests[i]) :
              Unsettled(pendingRequests[i][k].correlationId)
        /\ Len(pendingRequests[i]) = Cardinality(InFlight(i))

\* the last event is a provider message on i's own channel and kind whose
\* type or kind i's handlers have no case for
OutOfVocabulary(i) ==
    /\ Addressed(i)
    /\ LastEnvelope.hasMessage
    /\ IF i \in HandshakeInstances
       THEN \/ LastMessage.type = "response"
            \/ /\ LastMessage.type = "notification"
               /\ LastMessage.kind # "provider_announcement"
       ELSE /\ LastMessage.type = "notification"
            /\ LastMessage.kind # "signer_address_changed"

\* C17: a provider message on a channel's own name and kind whose type or
\* kind is outside the vocabulary is reported once through onError with the
\* invariant failure, invokes no callback, and changes neither the provider
\* directory nor the pending table nor any Future.
C17_OutOfVocabularyReportedOnce ==
    [][\A i \in Instances :
          (OutOfVocabulary(i)' /\ Listening(i))
          => /\ eff'[i].errors =
                   << IF LastMessage'.type = "notification"
                      THEN assertNever(LastMessage'.kind)
                      ELSE assertNever(LastMessage'.type) >>
             /\ eff'[i].callbacks = << >>
             /\ knownProviders' = knownProviders
             /\ pendingRequests' = pendingRequests
             /\ futures' = futures]_vars

\* a provider is in the directory and a call is pending when a notification
\* of an unknown kind arrives on the handshake channel and is reported
C17_Witness ==
    /\ OutOfVocabulary("hs")
    /\ LastMessage.type = "notification"
    /\ knownProviders["hs"] # EmptyObject
    /\ Len(pendingRequests["r1"]) = 1
    /\ Len(eff["hs"].errors) = 1
    /\ eff["hs"].callbacks = << >>
    /\ eff["r1"] = Quiet

\* the last event is an envelope one of the channels of this window sent
OwnTraffic ==
    /\ last.op = "deliverOwn"
    /\ \E k \in 1..Len(posted) :
          posted[k] = [target |-> "self", data |-> last.data]
    /\ \E i \in Instances : LastEnvelope.channel = clientChannelName(i)

\* C18: an envelope a channel sent (a client_announcement broadcast, an RPC
\* request), when the window delivers it back, invokes neither
\* onProviderMessage nor onError nor a callback of the sender or of any other
\* channel, and changes no directory, table or Future.
C18_OwnTrafficNeverDispatched ==
    [][last'.op = "deliverOwn"
          => /\ OwnTraffic'
             /\ eff' = AllQuiet
             /\ knownProviders' = knownProviders
             /\ pendingRequests' = pendingRequests
             /\ futures' = futures]_vars

\* the request of a pending call has come back to the window, with every
\* channel listening, and nothing was invoked
C18_Witness ==
    /\ OwnTraffic
    /\ LastMessage.type = "request"
    /\ LastMessage.correlation_id \in Issued("r1")
    /\ \A i \in Instances : Listening(i)
    /\ last.inst = "r1"
    /\ eff = AllQuiet

\* the kind under which call c of instance i was issued
KindOfCall(i, c) ==
    pendingRequests[i][FindPending(pendingRequests[i], c)].kind

\* C19: a response whose kind differs from the kind of the unsettled pending
\* request holding its correlation id settles that request all the same,
\* with the response's payload and by its success flag, and no error is
\* reported.
C19_MatchedByCorrelationIdAlone ==
    [][\A i \in RpcInstances : \A c \in Issued(i) :
          (/\ ResponseTo(i)' /\ Listening(i)
           /\ LastMessage'.correlation_id = c
           /\ Unsettled(c)
           /\ KindOfCall(i, c) # LastMessage'.kind)
          => /\ futures'[c] = SettledBy(LastMessage')
             /\ eff'[i].errors = << >>
             /\ ~eff'[i].escaped]_vars

=============================================================================
